---- MODULE Spec2Model ----
(***************************************************************************)
(* A model of butte: the bounds-checked buffer pointer (buf_ptr.rs), the   *)
(* table reader and root accessors (table.rs), the schema compiler backend *)
(* with the bindings it generates (codegen.rs) and the compile entry       *)
(* points (compile.rs).                                                    *)
(*                                                                         *)
(* 64-bit quantities are kept at their full width.  TLC's integers are     *)
(* 32-bit, so an i64/u64 value v is the record [h, m, l] with              *)
(*     v = h * Limb^2 + m * Limb + l,   0 <= m, l < Limb = 2^22,           *)
(* and -2^19 <= h < 2^19 for an i64 (0 <= h < 2^20 for a u64).             *)
(***************************************************************************)
EXTENDS Integers, Sequences, FiniteSets, TLC

VARIABLES
    debug,      \* the build: TRUE when debug assertions are compiled in
    ptrs,       \* BufPtr values alive, each with the buffer its chain began on
    last,       \* the last BufPtr call: operation, receiver, argument, result
    data,       \* the message buffer being decoded
    tab,        \* the Table reader the last call returned, if any did yet
    tlast,      \* the last table or root call and its result
    elem,       \* the schema element being lowered by the compiler
    emitted,    \* what the compiler has emitted for it so far, in order
    gstat,      \* the lowering: "idle", "running", "done" or "panic"
    fields,     \* the fields of the table whose generated bindings are run
    slots,      \* per field, what the builder wrote into its slot, if anything
    bcalls,     \* the encoder calls the generated builder made, in order
    blast,      \* the last call of a generated method and its result
    schema,     \* the parsed schema handed to the compiler, and the input
    env,        \* the compile call: ugly flag, how formatting and input behave
    runs        \* the compile runs completed on this schema, in order

ptrVars == <<ptrs, last>>
tableVars == <<data, tab, tlast>>
genVars == <<elem, emitted, gstat>>
bindVars == <<fields, slots, bcalls, blast>>
compVars == <<schema, env, runs>>

----------------------------------------------------------------------------
(* Bounds of the model *)

\* Longest small buffer, in bytes.
MaxLen == 2
\* Most fields of a small table; the field counts at the edge of the 16-bit
\* offset range are added to these.
MaxFields == 3
\* Most values of an enum.
MaxVals == 3
\* Most BufPtr values alive at once: a pointer built by `new` and the
\* pointers derived from it.
MaxPtrs == 2

----------------------------------------------------------------------------
(* 64-bit arithmetic on limbs *)

Limb == 2^22
HTop == 2^19

FromInt(n) ==
    [h |-> (n \div Limb) \div Limb, m |-> (n \div Limb) % Limb, l |-> n % Limb]

I64_MAX == [h |-> HTop - 1, m |-> Limb - 1, l |-> Limb - 1]
I64_MIN == [h |-> -HTop, m |-> 0, l |-> 0]
I32_MAX == 2147483647
I32_MIN == -2147483647 - 1

\* The mathematical sum, h unbounded.
MathAdd(a, b) ==
    LET l == a.l + b.l
        m == a.m + b.m + (l \div Limb)
    IN  [h |-> a.h + b.h + (m \div Limb), m |-> m % Limb, l |-> l % Limb]

\* The mathematical order.
Lt(a, b) ==
    \/ a.h < b.h
    \/ a.h = b.h /\ a.m < b.m
    \/ a.h = b.h /\ a.m = b.m /\ a.l < b.l

Le(a, b) == a = b \/ Lt(a, b)

FitsI64(x) == -HTop <= x.h /\ x.h < HTop

\* Two's complement truncation to 64 bits, read as signed.
WrapI64(x) == [x EXCEPT !.h = ((x.h + HTop) % (2 * HTop)) - HTop]

\* `x as u64`: the same 64 bits read as unsigned.
AsU64(x) == [x EXCEPT !.h = x.h % (2 * HTop)]

\* i64::overflowing_add: the wrapped sum and whether it wrapped.
overflowing_add(a, b) ==
    LET s == MathAdd(a, b)
    IN  [val |-> WrapI64(s), overflow |-> ~FitsI64(s)]

----------------------------------------------------------------------------
(* Results *)

Ok(v) == [tag |-> "Ok", val |-> v]
Err(e) == [tag |-> "Err", err |-> e]
Panic(why) == [tag |-> "Panic", why |-> why]

----------------------------------------------------------------------------
(* buf_ptr.rs *)

\* A buffer, as BufPtr sees it: BufPtr reads only its length.
BufLen(buf) == buf.len

\* A bounds check that is off by one: loc = len is refused.
BufPtr_new_exclusive(buf, loc) ==
    IF Lt(loc, FromInt(0)) \/ ~Lt(AsU64(loc), AsU64(BufLen(buf)))
    THEN Err("OutOfBounds")
    ELSE Ok([buf |-> buf, loc |-> loc])

\* BufPtr::new(buf, loc).  The debug assertion of line 39 compares a slice
\* length (at most isize::MAX) with u64::MAX and never fires.
BufPtr_new(buf, loc) ==
    IF Lt(loc, FromInt(0)) \/ Lt(AsU64(BufLen(buf)), AsU64(loc))
    THEN Err("OutOfBounds")
    ELSE Ok([buf |-> buf, loc |-> loc])

\* BufPtr::as_slice(&self): the view of buf from loc on.  In a debug build
\* the assertion loc > 0 panics; the slice index panics when loc > len.
BufPtr_as_slice(self) ==
    IF debug /\ ~Lt(FromInt(0), self.loc)
    THEN Panic("debug_assert!(self.loc > 0)")
    ELSE IF Lt(BufLen(self.buf), self.loc)
    THEN Panic("slice index out of range")
    ELSE Ok([buf |-> self.buf, from |-> self.loc])

\* with_offset reporting every failed derivation as an overflow.
BufPtr_with_offset_conflated(self, offset) ==
    LET r == overflowing_add(self.loc, FromInt(offset))
        n == BufPtr_new(self.buf, r.val)
    IN  [self |-> self,
         res  |-> IF r.overflow \/ n.tag = "Err"
                  THEN Err("IntegerOverflow")
                  ELSE n]

\* with_offset moving the receiver itself to the new location.
BufPtr_with_offset_in_place(self, offset) ==
    LET r == overflowing_add(self.loc, FromInt(offset))
        n == BufPtr_new(self.buf, r.val)
    IN  [self |-> IF ~r.overflow /\ n.tag = "Ok" THEN n.val ELSE self,
         res  |-> IF r.overflow THEN Err("IntegerOverflow") ELSE n]

\* BufPtr::with_offset(&self, offset: i32).  `self` is the receiver after the
\* call (borrowed immutably, hence unchanged), `res` the returned value.
BufPtr_with_offset(self, offset) ==
    LET r == overflowing_add(self.loc, FromInt(offset))
    IN  [self |-> self,
         res  |-> IF r.overflow
                  THEN Err("IntegerOverflow")
                  ELSE BufPtr_new(self.buf, r.val)]

----------------------------------------------------------------------------
(* Inputs of the BufPtr operations *)

Buffers ==
    {[len |-> FromInt(n)] : n \in 0..MaxLen}
        \cup {[len |-> I64_MAX], [len |-> MathAdd(I64_MAX, FromInt(-1))]}

Offsets ==
    {FromInt(n) : n \in -1..(MaxLen + 1)}
        \cup {I64_MIN, I64_MAX, MathAdd(I64_MAX, FromInt(-1))}

Deltas == {I32_MIN, -1, 0, 1, 2, I32_MAX}

NoCall == [op |-> "none"]

\* A pointer enters the live set while there is room for it.
Keep(set, e) == IF Cardinality(set) < MaxPtrs THEN set \cup {e} ELSE set

----------------------------------------------------------------------------
(* The BufPtr state machine *)

\* The parts of the state the BufPtr calls leave alone.
IdleTable ==
    /\ data = [len |-> FromInt(0), bytes |-> <<>>]
    /\ tab = NoCall
    /\ tlast = NoCall

\* The parts of the state the decode runtime leaves alone.
IdleBind ==
    /\ fields = <<>>
    /\ slots = <<>>
    /\ bcalls = <<>>
    /\ blast = NoCall

IdleComp ==
    /\ schema = NoCall
    /\ env = NoCall
    /\ runs = <<>>

IdleGen ==
    /\ elem = NoCall
    /\ emitted = <<>>
    /\ gstat = "idle"
    /\ IdleBind
    /\ IdleComp

InitPtr ==
    /\ debug \in BOOLEAN
    /\ ptrs = {}
    /\ last = NoCall
    /\ IdleTable
    /\ IdleGen

\* BufPtr::new on a fresh buffer starts a chain of pointers.
New ==
    \E buf \in Buffers, loc \in Offsets :
        LET res == BufPtr_new(buf, loc) IN
        /\ last' = [op |-> "new", buf |-> buf, loc |-> loc, res |-> res]
        /\ ptrs' = IF res.tag = "Ok"
                   THEN {[ptr |-> res.val, root |-> buf]}
                   ELSE {}
        /\ UNCHANGED <<debug, tableVars, genVars, bindVars, compVars>>

\* with_offset on a live pointer: the receiver stays as the call leaves it,
\* the derived pointer joins the live set.
WithOffset ==
    \E e \in ptrs, d \in Deltas :
        LET ret == BufPtr_with_offset(e.ptr, d)
            kept == (ptrs \ {e}) \cup {[e EXCEPT !.ptr = ret.self]}
        IN
        /\ last' = [op |-> "with_offset", self |-> e.ptr, offset |-> d,
                    after |-> ret.self, res |-> ret.res]
        /\ ptrs' = IF ret.res.tag = "Ok"
                   THEN Keep(kept, [ptr |-> ret.res.val, root |-> e.root])
                   ELSE kept
        /\ UNCHANGED <<debug, tableVars, genVars, bindVars, compVars>>

AsSlice ==
    \E e \in ptrs :
        /\ last' = [op |-> "as_slice", self |-> e.ptr,
                    res |-> BufPtr_as_slice(e.ptr)]
        /\ UNCHANGED <<debug, ptrs, tableVars, genVars, bindVars, compVars>>

NextPtr == New \/ WithOffset \/ AsSlice

vars == <<debug, ptrs, last, data, tab, tlast, elem, emitted, gstat,
          fields, slots, bcalls, blast, schema, env, runs>>

SpecPtr == InitPtr /\ [][NextPtr]_vars

----------------------------------------------------------------------------
(* Properties of BufPtr *)

Zero == FromInt(0)

\* C1: BufPtr::new(B, o) succeeds iff 0 <= o <= len(B); a failure is
\* OutOfBounds, a success holds exactly B and loc = o.
C1_NewInBoundsIff ==
    last.op = "new" =>
        LET inside == Le(Zero, last.loc) /\ Le(last.loc, BufLen(last.buf)) IN
        /\ (last.res.tag = "Ok") <=> inside
        /\ ~inside => last.res = Err("OutOfBounds")
        /\ inside => last.res = Ok([buf |-> last.buf, loc |-> last.loc])

\* new succeeded at the very end of a non-empty buffer.
C1_Witness ==
    /\ last.op = "new"
    /\ last.res.tag = "Ok"
    /\ last.loc = BufLen(last.buf)
    /\ last.loc # Zero

\* C2: with_offset fails IntegerOverflow only when the 64-bit sum wraps; a
\* sum that does not wrap but lies outside [0, len] fails OutOfBounds;
\* otherwise the result is the same buffer at loc + d, and with_offset(0)
\* returns the receiver.
C2_OverflowOnlyOnWrap ==
    last.op = "with_offset" =>
        LET sum   == MathAdd(last.self.loc, FromInt(last.offset))
            wraps == Lt(sum, I64_MIN) \/ Lt(I64_MAX, sum)
            out   == Lt(sum, Zero) \/ Lt(BufLen(last.self.buf), sum)
        IN
        /\ last.res = Err("IntegerOverflow") => wraps
        /\ (~wraps /\ out) => last.res = Err("OutOfBounds")
        /\ (~wraps /\ ~out) =>
               last.res = Ok([buf |-> last.self.buf, loc |-> sum])
        /\ last.offset = 0 => last.res = Ok(last.self)

\* with_offset overflowed 64 bits.
C2_Witness ==
    /\ last.op = "with_offset"
    /\ last.res = Err("IntegerOverflow")

\* C3: every live pointer has 0 <= loc <= len(buf) and is on the buffer its
\* chain was built on, and with_offset leaves its receiver as it was.
C3_PointersStayValid ==
    /\ \A e \in ptrs :
           /\ Le(Zero, e.ptr.loc)
           /\ Le(e.ptr.loc, BufLen(e.ptr.buf))
           /\ e.ptr.buf = e.root
    /\ last.op = "with_offset" => last.after = last.self

\* A pointer was derived at a non-zero offset and lives beside its parent.
C3_Witness ==
    /\ last.op = "with_offset"
    /\ last.offset # 0
    /\ last.res.tag = "Ok"
    /\ \E e \in ptrs : e.ptr = last.self
    /\ \E e \in ptrs : e.ptr = last.res.val

\* C4: no BufPtr operation panics, and as_slice is the buffer from loc to
\* its end.
C4_NeverPanics ==
    /\ last.op \in {"new", "with_offset", "as_slice"} =>
           last.res.tag \in {"Ok", "Err"}
    /\ last.op = "as_slice" =>
           last.res = Ok([buf |-> last.self.buf, from |-> last.self.loc])

----------------------------------------------------------------------------
(* Byte access and the decoders of the runtime (primitives, follow, vtable) *)

\* Width in bytes of a vtable offset, a forward offset, a vtable reference
\* and the size prefix.
SIZE_VOFFSET == 2
SIZE_UOFFSET == 4
SIZE_SOFFSET == 4
SIZE_SIZEPREFIX == 4

\* A buffer with its bytes; locations are zero-based.
Buffer(bytes) == [len |-> FromInt(Len(bytes)), bytes |-> bytes]

\* `x as usize` of a 64-bit value that fits TLC's integers.
AsUsize(x) == x.m * Limb + x.l

\* The mathematical difference.
MathSub(a, b) ==
    LET l == a.l - b.l
        m == a.m - b.m + (l \div Limb)
    IN  [h |-> a.h - b.h + (m \div Limb), m |-> m % Limb, l |-> l % Limb]

\* Little-endian read of n bytes at loc; reading past the end panics.
RECURSIVE LittleEndian(_, _, _)
LittleEndian(bytes, loc, n) ==
    IF n = 0 THEN 0
    ELSE bytes[loc + 1] + 256 * LittleEndian(bytes, loc + 1, n - 1)

read_scalar_at(buf, loc, n) ==
    IF loc + n <= Len(buf.bytes)
    THEN Ok(LittleEndian(buf.bytes, loc, n))
    ELSE Panic("read past the end of the buffer")

\* VTable::init(buf, loc): reads the vtable's byte length at loc.
VTable_init(buf, loc) ==
    [buf |-> buf, loc |-> loc, num_bytes |-> read_scalar_at(buf, loc, SIZE_VOFFSET)]

\* VTable::get(slot): the stored offset, or 0 for a slot outside the vtable.
VTable_get(vt, slot) ==
    IF vt.num_bytes.tag = "Panic" THEN vt.num_bytes
    ELSE IF slot >= vt.num_bytes.val THEN Ok(0)
    ELSE read_scalar_at(vt.buf, vt.loc + slot, SIZE_VOFFSET)

----------------------------------------------------------------------------
(* table.rs *)

None == [tag |-> "None"]
Some(v) == [tag |-> "Some", val |-> v]

ExpectFollow ==
    "FIXME: Follow currently has no way of reporting out of bounds errors."

\* Table::new(ptr).
Table_new(ptr) ==
    LET tbl == BufPtr_as_slice(ptr) IN
    IF tbl.tag = "Panic" THEN tbl
    ELSE IF Lt(MathSub(BufLen(tbl.val.buf), tbl.val.from), FromInt(SIZE_SOFFSET))
    THEN Err("MissingVTable")
    ELSE Ok([start  |-> ptr,
             vtable |-> VTable_init(ptr.buf, AsUsize(ptr.loc))])

\* Table::from_buf_loc(buf, loc).  i64::try_from(loc) cannot fail for the
\* locations of the model.
Table_from_buf_loc(buf, loc) ==
    LET p == BufPtr_new(buf, FromInt(loc)) IN
    IF p.tag = "Err" THEN p ELSE Table_new(p.val)

\* <Table as Follow>::follow(buf, loc): the table, or the panic of expect.
Table_follow(buf, loc) ==
    LET t == Table_from_buf_loc(buf, loc) IN
    IF t.tag = "Err" THEN Panic(ExpectFollow) ELSE t

\* <T as Follow>::follow(buf, loc) for T a chain of wrappers around a leaf:
\* <<"ForwardsUOffset", "Table">> is ForwardsUOffset<Table>.
RECURSIVE Follow(_, _, _)
Follow(T, buf, loc) ==
    CASE Head(T) = "Table" -> Table_follow(buf, loc)
      [] Head(T) = "u8" -> read_scalar_at(buf, loc, 1)
      [] Head(T) = "ForwardsUOffset" ->
            LET off == read_scalar_at(buf, loc, SIZE_UOFFSET) IN
            IF off.tag = "Panic" THEN off
            ELSE Follow(Tail(T), buf, loc + off.val)
      [] Head(T) = "SkipSizePrefix" ->
            Follow(Tail(T), buf, loc + SIZE_SIZEPREFIX)

\* Table::get without the test for an absent field.
Table_get_no_absent(self, slot_byte_loc, T) ==
    LET o == VTable_get(self.vtable, slot_byte_loc) IN
    IF o.tag = "Panic" THEN [res |-> o, followed |-> FALSE]
    ELSE LET v == Follow(T, self.start.buf, AsUsize(self.start.loc) + o.val) IN
         [res |-> IF v.tag = "Panic" THEN v ELSE Ok(Some(v.val)),
          followed |-> TRUE]

\* Table::get::<T>(slot_byte_loc): the result, and whether T::follow ran.
Table_get(self, slot_byte_loc, T) ==
    LET o == VTable_get(self.vtable, slot_byte_loc) IN
    IF o.tag = "Panic" THEN [res |-> o, followed |-> FALSE]
    ELSE IF o.val = 0 THEN [res |-> Ok(None), followed |-> FALSE]
    ELSE LET v == Follow(T, self.start.buf, AsUsize(self.start.loc) + o.val) IN
         [res |-> IF v.tag = "Panic" THEN v ELSE Ok(Some(v.val)),
          followed |-> TRUE]

\* get_root::<T>(data).
get_root(T, buf) == Follow(<<"ForwardsUOffset">> \o T, buf, 0)

\* get_size_prefixed_root without the skip of the prefix.
get_size_prefixed_root_no_skip(T, buf) ==
    Follow(<<"ForwardsUOffset">> \o T, buf, 0)

\* get_size_prefixed_root::<T>(data).
get_size_prefixed_root(T, buf) ==
    Follow(<<"SkipSizePrefix", "ForwardsUOffset">> \o T, buf, 0)

----------------------------------------------------------------------------
(* Inputs of the table operations *)

LE(n, v) == [i \in 1..n |-> (v \div (256 ^ (i - 1))) % 256]

\* Root offsets, vtable lengths, stored field offsets and payloads that
\* messages are assembled from: valid ones and ones that point nowhere.
RootOffsets == {0, 4, 40}
VTableLens == {0, 6, 8}
FieldOffsets == {0, 8, 40}
Payloads == {<<7, 4, 0, 0, 0, 4, 0, 0, 0>>}
Cuts == {3, 10}

\* A message: root offset, the table's vtable (length, inline size, two
\* slots), payload; possibly cut short.
Messages ==
    UNION {
        LET full == LE(4, r) \o LE(2, vl) \o LE(2, 0)
                        \o LE(2, f4) \o LE(2, f6) \o pay
        IN  {SubSeq(full, 1, k) : k \in Cuts \cup {Len(full)}}
        : r \in RootOffsets, vl \in VTableLens, f4 \in FieldOffsets,
          f6 \in {0, 9}, pay \in Payloads }

Slots == {4, 6, 8}
FieldTypes == {<<"u8">>, <<"Table">>, <<"ForwardsUOffset", "Table">>}
Prefixes == {<<0, 0, 0, 0>>, <<16, 0, 0, 0>>}

----------------------------------------------------------------------------
(* The table state machine *)

InitTable ==
    /\ debug \in BOOLEAN
    /\ ptrs = {}
    /\ last = NoCall
    /\ data \in {Buffer(b) : b \in Messages}
    /\ tab = NoCall
    /\ tlast = NoCall
    /\ IdleGen

\* The table a call returned, if it returned one.
Returned(res) == IF res.tag = "Ok" THEN res.val ELSE NoCall

\* Table::new over a valid pointer into data.
TableNew ==
    \E loc \in 0..Len(data.bytes) :
        LET p == BufPtr_new(data, FromInt(loc))
            res == Table_new(p.val)
        IN
        /\ p.tag = "Ok"
        /\ tlast' = [op |-> "Table::new", ptr |-> p.val, res |-> res]
        /\ tab' = Returned(res)
        /\ UNCHANGED <<debug, ptrVars, genVars, bindVars, compVars, data>>

\* Table::from_buf_loc at any location, also one past the buffer.
TableFromBufLoc ==
    \E loc \in {0, 4, Len(data.bytes), Len(data.bytes) + 1} :
        LET res == Table_from_buf_loc(data, loc) IN
        /\ tlast' = [op |-> "Table::from_buf_loc", loc |-> loc, res |-> res]
        /\ tab' = Returned(res)
        /\ UNCHANGED <<debug, ptrVars, genVars, bindVars, compVars, data>>

\* Table::get::<T>(slot) on the table built before.
TableGet ==
    \E slot \in Slots, T \in FieldTypes :
        LET g == Table_get(tab, slot, T) IN
        /\ tab # NoCall
        /\ tlast' = [op |-> "Table::get", self |-> tab, slot |-> slot, T |-> T,
                     res |-> g.res, followed |-> g.followed]
        /\ tab' = IF g.res.tag = "Ok" /\ g.res.val.tag = "Some" /\ T # <<"u8">>
                  THEN g.res.val.val
                  ELSE tab
        /\ UNCHANGED <<debug, ptrVars, genVars, bindVars, compVars, data>>

GetRoot ==
    LET res == get_root(<<"Table">>, data) IN
    /\ tlast' = [op |-> "get_root", res |-> res]
    /\ tab' = Returned(res)
    /\ UNCHANGED <<debug, ptrVars, genVars, bindVars, compVars, data>>

\* get_size_prefixed_root on data behind a 4-byte length prefix.
GetSizePrefixedRoot ==
    \E P \in Prefixes :
        LET res == get_size_prefixed_root(<<"Table">>, Buffer(P \o data.bytes))
        IN
        /\ tlast' = [op |-> "get_size_prefixed_root", prefix |-> P, res |-> res]
        /\ tab' = Returned(res)
        /\ UNCHANGED <<debug, ptrVars, genVars, bindVars, compVars, data>>

NextTable ==
    TableNew \/ TableFromBufLoc \/ TableGet \/ GetRoot \/ GetSizePrefixedRoot

SpecTable == InitTable /\ [][NextTable]_vars

----------------------------------------------------------------------------
(* Properties of Table and the root accessors *)

\* The bytes and the start of the table a call was made on.
BytesOf(t) == t.start.buf.bytes
StartOf(t) == AsUsize(t.start.loc)

\* The vtable byte length recorded at the table, and what is stored in
\* the vtable for a slot that lies inside the buffer.
RecordedLen(t) == LittleEndian(BytesOf(t), StartOf(t), SIZE_VOFFSET)
SlotInBuffer(t, slot) == StartOf(t) + slot + SIZE_VOFFSET <= Len(BytesOf(t))
StoredOffset(t, slot) == LittleEndian(BytesOf(t), StartOf(t) + slot, SIZE_VOFFSET)

\* C5: Table::get at a slot whose stored offset is 0, or that lies beyond
\* the vtable's recorded length, is Ok(None) and the decoder is not run.
C5_AbsentFieldIsNone ==
    tlast.op = "Table::get" =>
        LET beyond == tlast.slot >= RecordedLen(tlast.self)
            zero   == /\ SlotInBuffer(tlast.self, tlast.slot)
                      /\ StoredOffset(tlast.self, tlast.slot) = 0
        IN  (beyond \/ zero) => (tlast.res = Ok(None) /\ ~tlast.followed)

\* get found a zero stored inside the vtable of a table that has another
\* field present.
C5_Witness ==
    /\ tlast.op = "Table::get"
    /\ tlast.slot = 6
    /\ RecordedLen(tlast.self) = 8
    /\ SlotInBuffer(tlast.self, 6)
    /\ StoredOffset(tlast.self, 6) = 0
    /\ StoredOffset(tlast.self, 4) # 0
    /\ tlast.res = Ok(None)

\* C6: Table::new fails MissingVTable when fewer than 4 bytes remain at
\* the pointer, and does not fail so when 4 or more remain.
C6_MissingVTableIffShort ==
    tlast.op = "Table::new" =>
        LET remaining == Len(tlast.ptr.buf.bytes) - AsUsize(tlast.ptr.loc) IN
        /\ remaining < SIZE_SOFFSET => tlast.res = Err("MissingVTable")
        /\ remaining >= SIZE_SOFFSET => tlast.res # Err("MissingVTable")

\* C7: a decode ends in a value or a reported error, never in a panic:
\* stated for Table::get of a referenced table at a non-zero stored
\* offset, in a build without debug assertions.
C7_DecodeNeverPanics ==
    (/\ ~debug
     /\ tlast.op = "Table::get"
     /\ tlast.T = <<"Table">>
     /\ tlast.followed) => tlast.res.tag = "Ok"

\* What a decoded root table shows: each slot read as a byte, and whether
\* each slot read as a reference decodes.
FieldView(t, slot, T) ==
    LET g == Table_get(t, slot, T).res IN
    IF T # <<"u8">> /\ g.tag = "Ok" THEN Ok(g.val.tag) ELSE g

Observe(res) ==
    [tag |-> res.tag,
     fields |-> IF res.tag = "Ok"
                THEN [f \in Slots \X FieldTypes |-> FieldView(res.val, f[1], f[2])]
                ELSE <<>>]

\* A root offset followed by a table: the offset points past itself at a
\* place with room for the table's first four bytes.
WellFormed(bytes) ==
    /\ Len(bytes) >= SIZE_UOFFSET
    /\ LittleEndian(bytes, 0, SIZE_UOFFSET) >= SIZE_UOFFSET
    /\ LittleEndian(bytes, 0, SIZE_UOFFSET) + SIZE_SOFFSET <= Len(bytes)

\* C8: on a well-formed buffer B behind any 4-byte prefix P,
\* get_size_prefixed_root(P ++ B) decodes to what get_root(B) decodes to.
C8_SizePrefixedRootAgrees ==
    (tlast.op = "get_size_prefixed_root" /\ WellFormed(data.bytes)) =>
        LET sized == Observe(tlast.res)
            plain == Observe(get_root(<<"Table">>, data))
        IN  sized.tag = plain.tag /\ sized.fields = plain.fields

\* A size-prefixed one-field table was decoded and its field reads 7.
C8_Witness ==
    /\ tlast.op = "get_size_prefixed_root"
    /\ WellFormed(data.bytes)
    /\ tlast.prefix # <<0, 0, 0, 0>>
    /\ tlast.res.tag = "Ok"
    /\ Table_get(tlast.res.val, 4, <<"u8">>).res = Ok(Some(7))

----------------------------------------------------------------------------
(* codegen.rs: offset constants of a table, discriminants of an enum *)

\* VOffsetT is a 16-bit unsigned integer.
VOFFSET_BITS == 16

\* `index as VOffsetT`: the low 16 bits of a usize.
AsVOffsetT(index) == index % (2 ^ VOFFSET_BITS)

\* butte::field_index_to_field_offset(field_id) -> VOffsetT: 4 + 2 * field_id
\* in 16-bit arithmetic, which panics on overflow in a debug build and
\* wraps otherwise.
field_index_to_field_offset(field_id) ==
    LET v == 4 + 2 * field_id IN
    IF v < 2 ^ VOFFSET_BITS THEN Ok(v)
    ELSE IF debug THEN Panic("attempt to multiply with overflow")
    ELSE Ok(v % (2 ^ VOFFSET_BITS))

\* The constant of a field counted from one.
FieldOffsetConstant_one_based(index) ==
    field_index_to_field_offset(AsVOffsetT(index + 1))

\* Table::to_tokens, field_offset_constants: the value of the constant
\* emitted for the field at `index` of fields.iter().enumerate().
FieldOffsetConstant(index) == field_index_to_field_offset(AsVOffsetT(index))

\* C numbering: a value without a constant is its predecessor's plus one.
RECURSIVE Enum_fields_c_style(_)
Enum_fields_c_style(values) ==
    IF values = <<>> THEN <<>>
    ELSE LET n == Len(values)
             before == Enum_fields_c_style(SubSeq(values, 1, n - 1))
         IN  Append(before,
                    IF values[n].tag = "Some" THEN values[n].val
                    ELSE IF n = 1 THEN 0
                    ELSE before[n - 1] + 1)

\* Enum::to_tokens, fields: the discriminant of each value, in order; the
\* k-th value of the list has the enumerate() index k - 1.
Enum_fields(values) ==
    [k \in 1..Len(values) |->
        IF values[k].tag = "Some" THEN values[k].val ELSE k - 1]

----------------------------------------------------------------------------
(* Inputs of the compiler *)

\* Tables by their number of fields: small ones, the largest whose
\* constants fit 16 bits, and ones beyond.
FieldCounts ==
    (0..MaxFields)
        \cup {2 ^ (VOFFSET_BITS - 1) - 2, 2 ^ (VOFFSET_BITS - 1) - 1,
              2 ^ VOFFSET_BITS + 1}

\* The fields of a table that the model follows: the first ones and the
\* ones around the edges of the 16-bit range.
Followed(n) ==
    {i \in (0..MaxFields)
            \cup {2 ^ (VOFFSET_BITS - 1) - 3, 2 ^ (VOFFSET_BITS - 1) - 2,
                  2 ^ VOFFSET_BITS - 1, 2 ^ VOFFSET_BITS} : i < n}

ExplicitConstants == {0, 5, 7}
EnumVals == {None} \cup {Some(c) : c \in ExplicitConstants}

RECURSIVE SeqsUpTo(_, _)
SeqsUpTo(S, n) ==
    IF n = 0 THEN {<<>>}
    ELSE LET shorter == SeqsUpTo(S, n - 1)
         IN  shorter \cup {Append(q, x) : q \in shorter, x \in S}

Elements ==
    {[kind |-> "Table", nfields |-> n] : n \in FieldCounts}
        \cup {[kind |-> "Enum", values |-> v] : v \in SeqsUpTo(EnumVals, MaxVals)}

----------------------------------------------------------------------------
(* The compiler state machine *)

InitGen ==
    /\ debug \in BOOLEAN
    /\ ptrs = {}
    /\ last = NoCall
    /\ IdleTable
    /\ elem \in Elements
    /\ emitted = <<>>
    /\ gstat = "running"
    /\ IdleBind
    /\ IdleComp

\* The followed fields of the table not emitted yet.
Pending ==
    {i \in Followed(elem.nfields) :
        \A k \in 1..Len(emitted) : emitted[k].index < i}

\* One step of field_offset_constants: the next field's constant.
EmitOffsetConstant ==
    /\ gstat = "running"
    /\ elem.kind = "Table"
    /\ \E i \in Pending :
          LET c == FieldOffsetConstant(i) IN
          /\ \A j \in Pending : i <= j
          /\ IF c.tag = "Panic"
             THEN gstat' = "panic" /\ emitted' = emitted
             ELSE /\ emitted' = Append(emitted, [index |-> i, value |-> c.val])
                  /\ gstat' = gstat
    /\ UNCHANGED <<debug, ptrVars, tableVars, bindVars, compVars, elem>>

\* One step of Enum::to_tokens' fields: the next value's discriminant.
EmitEnumField ==
    /\ gstat = "running"
    /\ elem.kind = "Enum"
    /\ Len(emitted) < Len(elem.values)
    /\ emitted' = Append(emitted,
                         [index |-> Len(emitted),
                          value |-> Enum_fields(elem.values)[Len(emitted) + 1]])
    /\ UNCHANGED <<debug, ptrVars, tableVars, bindVars, compVars, elem, gstat>>

\* The element is lowered once its last item is out.
FinishElement ==
    /\ gstat = "running"
    /\ IF elem.kind = "Table"
       THEN Pending = {}
       ELSE Len(emitted) = Len(elem.values)
    /\ gstat' = "done"
    /\ UNCHANGED <<debug, ptrVars, tableVars, bindVars, compVars, elem, emitted>>

NextGen == EmitOffsetConstant \/ EmitEnumField \/ FinishElement

SpecGen == InitGen /\ [][NextGen]_vars

----------------------------------------------------------------------------
(* Properties of the compiler *)

InU16(v) == v < 2 ^ VOFFSET_BITS

C10_EnumDiscriminantLaw ==
    elem.kind = "Enum" =>
        /\ \A k \in 1..Len(emitted) :
              /\ emitted[k].index = k - 1
              /\ emitted[k].value =
                    IF elem.values[k] = None THEN k - 1 ELSE elem.values[k].val
        /\ (elem.values = <<None, Some(5), None>> /\ gstat = "done") =>
              [k \in 1..3 |-> emitted[k].value] = <<0, 5, 2>>

\* [A, B = 5, C] was lowered.
C10_Witness ==
    /\ elem.kind = "Enum"
    /\ elem.values = <<None, Some(5), None>>
    /\ gstat = "done"
    /\ Len(emitted) = 3
    /\ emitted[3].value = 2

----------------------------------------------------------------------------
(* codegen.rs: lowering a whole schema *)

\* The schema elements the compiler has no lowering for.
UnsupportedKinds ==
    {"Struct", "Union", "Root", "FileIdentifier", "FileExtension",
     "Attribute", "Object"}

\* A namespace declaration with the parts of its dotted path, and any other
\* element.
NamespaceElement(parts) == [kind |-> "Namespace", ident |-> parts]
Item(kind) == [kind |-> kind]

is_namespace(element) == element.kind = "Namespace"
namespace(element) ==
    IF is_namespace(element) THEN Some(element.ident) ELSE None

\* Element::to_tokens: tables, enums and rpc services are lowered; six kinds
\* stop at unimplemented!(), whose message names nothing; whatever is left
\* panics with the element's debug text.
Element_to_tokens(element) ==
    CASE element.kind \in {"Table", "Enum", "Rpc"} -> Ok([item |-> element.kind])
      [] element.kind \in {"Struct", "Root", "FileExtension", "FileIdentifier",
                           "Attribute", "Object"} ->
            Panic([msg |-> "not implemented", element |-> None])
      [] OTHER -> Panic([msg |-> "debug", element |-> Some(element)])

\* The scan from element k on with the namespace in force never updated.
ScanNamespaces_untracked(elements, k, ns) ==
    [i \in 1..(Len(elements) + 1 - k) |->
        IF is_namespace(elements[i + k - 1])
        THEN <<ns, None>> ELSE <<ns, Some(i + k - 1)>>]

\* The scan of Schema::to_tokens from element k on, ns being the namespace in
\* force: a namespace element yields (its namespace, None), any other element
\* (the namespace in force, the element).  Elements are named by position.
RECURSIVE ScanNamespaces(_, _, _)
ScanNamespaces(elements, k, ns) ==
    IF k > Len(elements) THEN <<>>
    ELSE LET ns_item_pair ==
                 IF is_namespace(elements[k])
                 THEN <<namespace(elements[k]), None>>
                 ELSE <<ns, Some(k)>>
         IN  <<ns_item_pair>> \o ScanNamespaces(elements, k + 1, ns_item_pair[1])

\* The pairs that carry an element.
WithElement(pairs) == SelectSeq(pairs, LAMBDA pair : pair[2] # None)

\* into_group_map: the elements of each key, in the order they came.
RECURSIVE GroupOf(_, _)
GroupOf(pairs, key) ==
    IF pairs = <<>> THEN <<>>
    ELSE (IF Head(pairs)[1] = key THEN <<Head(pairs)[2].val>> ELSE <<>>)
            \o GroupOf(Tail(pairs), key)

into_group_map(pairs) ==
    [key \in {pairs[i][1] : i \in 1..Len(pairs)} |-> GroupOf(pairs, key)]

\* The orders in which a hash map may hand out its keys.
IterationOrders(map) ==
    LET keys == DOMAIN map
    IN  {ord \in [1..Cardinality(keys) -> keys] :
            \A i, j \in 1..Cardinality(keys) : i # j => ord[i] # ord[j]}

\* The groups of a schema in the order the map hands them out.
Groups(elements, ord) ==
    LET map == into_group_map(WithElement(ScanNamespaces(elements, 1, None)))
    IN  [i \in 1..Len(ord) |-> [ns |-> ord[i], elements |-> map[ord[i]]]]

GroupOrders(elements) ==
    IterationOrders(into_group_map(WithElement(ScanNamespaces(elements, 1, None))))

\* Include::to_tokens: a glob import of the included file's stem.
Include_to_tokens(include) == [use |-> include]

RECURSIVE Reverse(_)
Reverse(q) == IF q = <<>> THEN <<>> ELSE Append(Reverse(Tail(q)), Head(q))

\* The fold over the reversed namespace parts: each part wraps what is there
\* in a module of its name, so the first part ends up outermost.
RECURSIVE FoldModules(_, _)
FoldModules(rev_parts, module_body) ==
    IF rev_parts = <<>> THEN module_body
    ELSE FoldModules(Tail(rev_parts),
                     <<[mod |-> Head(rev_parts), body |-> module_body]>>)

\* #(#elements)*: the elements at the given positions lowered in order; the
\* first panic ends the lowering.
RECURSIVE LowerAll(_, _)
LowerAll(elements, positions) ==
    IF positions = <<>> THEN Ok(<<>>)
    ELSE LET first == Element_to_tokens(elements[Head(positions)])
             rest == LowerAll(elements, Tail(positions))
         IN  IF first.tag = "Panic" THEN first
             ELSE IF rest.tag = "Panic" THEN rest
             ELSE Ok(<<first.val>> \o rest.val)

\* The code of one group: its elements, inside the namespace's modules.
Group_to_tokens(elements, group) ==
    LET base_body == LowerAll(elements, group.elements)
    IN  IF base_body.tag = "Panic" THEN base_body
        ELSE IF group.ns = None THEN base_body
        ELSE Ok(FoldModules(Reverse(group.ns.val), base_body.val))

\* #(#code)*: the groups lowered in the order given.
RECURSIVE LowerGroups(_, _)
LowerGroups(elements, groups) ==
    IF groups = <<>> THEN Ok(<<>>)
    ELSE LET first == Group_to_tokens(elements, Head(groups))
             rest == LowerGroups(elements, Tail(groups))
         IN  IF first.tag = "Panic" THEN first
             ELSE IF rest.tag = "Panic" THEN rest
             ELSE Ok(first.val \o rest.val)

\* Schema::to_tokens: the includes, then the groups in the order ord the
\* group map hands them out.
Schema_to_tokens(includes, elements, ord) ==
    LET code == LowerGroups(elements, Groups(elements, ord))
    IN  IF code.tag = "Panic" THEN code
        ELSE Ok([i \in 1..Len(includes) |-> Include_to_tokens(includes[i])]
                    \o code.val)

----------------------------------------------------------------------------
(* compile.rs: the compile entry points *)

\* The generated code as text, and what rustfmt makes of a text.  A text
\* that was not produced at all is the empty text.
Raw(code) == [formatted |-> FALSE, toks |-> code]
Rustfmt(text) == [formatted |-> TRUE, toks |-> text.toks]
NoText == [formatted |-> FALSE, toks |-> <<>>]

\* How the formatter child may behave: it runs and exits successfully, it
\* cannot be started, its standard input cannot be written, waiting for it
\* fails, or it exits with a failure status having printed nothing.
FormatterOutcomes ==
    {"ok", "spawn_fails", "write_fails", "wait_fails", "exit_failure"}

\* compile_fbs_generic: read and parse the input, generate the code, format
\* it unless ugly, write the text to the output.  The result carries what was
\* written to the output, if anything, and whether the formatter was started.
compile_fbs_generic(ugly, input, fmt, ord) ==
    LET stopped(res, started) ==
            [res |-> res, written |-> None, spawned |-> started]
        code == Schema_to_tokens(input.includes, input.elements, ord)
    IN  IF input.text = "unreadable" THEN stopped(Err("io"), FALSE)
        ELSE IF input.text = "malformed" THEN stopped(Err("parse failed"), FALSE)
        ELSE IF code.tag = "Panic" THEN stopped(code, FALSE)
        ELSE IF ~ugly
        THEN CASE fmt = "spawn_fails" -> stopped(Err("io"), FALSE)
               [] fmt = "write_fails" -> stopped(Err("io"), TRUE)
               [] fmt = "wait_fails" -> stopped(Err("io"), TRUE)
               [] fmt = "exit_failure" ->
                    [res |-> Ok(<<>>), written |-> Some(NoText), spawned |-> TRUE]
               [] OTHER ->
                    [res |-> Ok(<<>>), written |-> Some(Rustfmt(Raw(code.val))),
                     spawned |-> TRUE]
        ELSE [res |-> Ok(<<>>), written |-> Some(Raw(code.val)), spawned |-> FALSE]

\* compile_fbs: the schema file compiled unformatted into the output
\* directory.
compile_fbs(input, fmt, ord) == compile_fbs_generic(TRUE, input, fmt, ord)

----------------------------------------------------------------------------
(* Schemas the compiler is run on *)

\* Most elements of a schema, the two written out below aside.
MaxElems == 3

NsPaths == {<<"a">>, <<"b">>}
Lowered == {"Table", "Enum"}
Alphabet == {NamespaceElement(parts) : parts \in NsPaths} \cup {Item(k) : k \in Lowered}

InsertAt(q, k, x) == SubSeq(q, 1, k - 1) \o <<x>> \o SubSeq(q, k, Len(q))

\* Schemas of supported elements only.
SupportedSchemas == SeqsUpTo(Alphabet, MaxElems)

\* Schemas with one unsupported element somewhere.
UnsupportedSchemas ==
    UNION {{InsertAt(q, k, Item(u)) : k \in 1..(Len(q) + 1), u \in UnsupportedKinds} :
              q \in SeqsUpTo(Alphabet, MaxElems - 1)}

\* [ns(a), X, ns(b), Y, Z], and a table inside a two-part namespace.
WrittenOutSchemas ==
    {<<NamespaceElement(<<"a">>), Item("Table"), NamespaceElement(<<"b">>),
       Item("Enum"), Item("Rpc")>>,
     <<NamespaceElement(<<"a", "b">>), Item("Table")>>}

IncludeLists == {<<>>, <<"common">>}

Inputs ==
    {[text |-> "ok", includes |-> i, elements |-> e] :
        i \in IncludeLists,
        e \in SupportedSchemas \cup UnsupportedSchemas \cup WrittenOutSchemas}
    \cup {[text |-> t, includes |-> <<>>, elements |-> <<>>] :
            t \in {"unreadable", "malformed"}}

----------------------------------------------------------------------------
(* The compile state machine: up to two runs on the same schema with the
   same settings and the same behaviour of the environment *)

\* No step of the compiler depends on debug assertions.
InitComp ==
    /\ debug = FALSE
    /\ ptrs = {}
    /\ last = NoCall
    /\ IdleTable
    /\ elem = NoCall
    /\ emitted = <<>>
    /\ gstat = "idle"
    /\ IdleBind
    /\ schema \in Inputs
    /\ env \in [ugly : BOOLEAN, fmt : FormatterOutcomes]
    /\ runs = <<>>

\* A completed run: the entry point, the groups the schema fell into in the
\* order they were handed out, and the outcome of the call.
Run(entry, call, ord) ==
    [entry |-> entry, groups |-> Groups(schema.elements, ord),
     res |-> call.res, written |-> call.written, spawned |-> call.spawned]

CompileFbsGeneric ==
    /\ Len(runs) < 2
    /\ \E ord \in GroupOrders(schema.elements) :
          runs' = Append(runs,
                         Run("compile_fbs_generic",
                             compile_fbs_generic(env.ugly, schema, env.fmt, ord),
                             ord))
    /\ UNCHANGED <<debug, ptrVars, tableVars, genVars, bindVars, schema, env>>

CompileFbs ==
    /\ Len(runs) < 2
    /\ \E ord \in GroupOrders(schema.elements) :
          runs' = Append(runs,
                         Run("compile_fbs", compile_fbs(schema, env.fmt, ord), ord))
    /\ UNCHANGED <<debug, ptrVars, tableVars, genVars, bindVars, schema, env>>

NextComp == CompileFbsGeneric \/ CompileFbs

SpecComp == InitComp /\ [][NextComp]_vars

----------------------------------------------------------------------------
(* Properties of the compile runs *)

\* The namespace in force at position k of an element list: that of the last
\* namespace element before k, if there is one.
NamespaceInForce(elements, k) ==
    LET before == {i \in 1..(k - 1) : is_namespace(elements[i])}
    IN  IF before = {} THEN None
        ELSE Some(elements[CHOOSE i \in before : \A j \in before : j <= i].ident)

\* The places (group, index) at which position k of the schema was put.
PlacesOf(groups, k) ==
    UNION {{<<g, j>> : j \in {i \in 1..Len(groups[g].elements) :
                                  groups[g].elements[i] = k}} :
              g \in 1..Len(groups)}

\* C11: in every run on a parsed schema each element that is no namespace is
\* in exactly one group, the group of the last namespace before it (the
\* no-namespace group if there is none), no namespace element is in a group,
\* no two groups share a namespace, and a group keeps declaration order;
\* [ns(a), X, ns(b), Y, Z] falls into {a: [X]} and {b: [Y, Z]}.
C11_NamespaceGrouping ==
    \A r \in 1..Len(runs) :
        schema.text = "ok" =>
            LET elements == schema.elements
                groups == runs[r].groups
            IN  /\ \A k \in 1..Len(elements) :
                      IF is_namespace(elements[k])
                      THEN PlacesOf(groups, k) = {}
                      ELSE /\ Cardinality(PlacesOf(groups, k)) = 1
                           /\ \A place \in PlacesOf(groups, k) :
                                 groups[place[1]].ns = NamespaceInForce(elements, k)
                /\ \A g, h \in 1..Len(groups) :
                      g # h => groups[g].ns # groups[h].ns
                /\ \A g \in 1..Len(groups) :
                      \A i, j \in 1..Len(groups[g].elements) :
                          /\ groups[g].elements[i] \in 1..Len(elements)
                          /\ i < j => groups[g].elements[i] < groups[g].elements[j]
                /\ elements = <<NamespaceElement(<<"a">>), Item("Table"),
                                NamespaceElement(<<"b">>), Item("Enum"), Item("Rpc")>>
                      => {groups[g] : g \in 1..Len(groups)} =
                            {[ns |-> Some(<<"a">>), elements |-> <<2>>],
                             [ns |-> Some(<<"b">>), elements |-> <<4, 5>>]}

\* [ns(a), X, ns(b), Y, Z] was compiled unformatted: the code of X lies in
\* module a, that of Y and Z in module b.
C11_Witness ==
    /\ schema.text = "ok"
    /\ schema.elements = <<NamespaceElement(<<"a">>), Item("Table"),
                           NamespaceElement(<<"b">>), Item("Enum"), Item("Rpc")>>
    /\ schema.includes = <<>>
    /\ Len(runs) = 1
    /\ runs[1].res = Ok(<<>>)
    /\ runs[1].groups = <<[ns |-> Some(<<"a">>), elements |-> <<2>>],
                          [ns |-> Some(<<"b">>), elements |-> <<4, 5>>]>>
    /\ runs[1].written =
          Some(Raw(<<[mod |-> "a", body |-> <<[item |-> "Table"]>>],
                     [mod |-> "b", body |-> <<[item |-> "Enum"], [item |-> "Rpc"]>>]>>))

----------------------------------------------------------------------------
(* codegen.rs: the bindings generated for a table, and what they do when
   they run against the accumulator of spec section 4.4.  A field is
   [ty, scalar, required]: its type, its default if it has one, and whether
   its metadata marks it required.  Fields are named by position. *)

is_scalar(ty) == ty # "String"

\* builder_field_methods: the body of add_<field> is push_slot with the
\* default for a scalar that has one, push_slot_always for anything else.
BuilderFieldMethod(field, i) ==
    IF is_scalar(field.ty) /\ field.scalar # None
    THEN [call |-> "push_slot", field |-> i, default |-> field.scalar]
    ELSE [call |-> "push_slot_always", field |-> i, default |-> None]

\* required_fields: one call of `required` for each field of the table.
RequiredFields(table_fields) ==
    [i \in 1..Len(table_fields) |-> [call |-> "required", field |-> i]]

\* The body of the generated finish: end_table, then the required calls.
FinishBody(table_fields) ==
    <<[call |-> "end_table", field |-> 0]>> \o RequiredFields(table_fields)

\* field_accessors: every accessor returns an Option and hands None to get
\* as the value of an absent field.
FieldAccessor(field, i) ==
    [call |-> "get", field |-> i, default |-> None,
     wrapped |-> ~is_scalar(field.ty)]

\* The accumulator: push_slot leaves the slot unwritten when the value is the
\* default, push_slot_always writes it, required fails naming the field
\* whose slot was never written.
push_slot(written, i, value, default) ==
    IF default = Some(value) THEN written ELSE [written EXCEPT ![i] = Some(value)]
push_slot_always(written, i, value) == [written EXCEPT ![i] = Some(value)]
required(written, i) ==
    IF written[i] = None THEN Panic([missing |-> i]) ELSE Ok(<<>>)

\* The decode side of an accessor: the value of the slot, or the default
\* handed over if the slot is absent.
get_or(written, i, default) == IF written[i] = None THEN default ELSE written[i]

\* A builder method run on a value.
RunAdd(written, method, value) ==
    IF method.call = "push_slot"
    THEN push_slot(written, method.field, value, method.default)
    ELSE push_slot_always(written, method.field, value)

\* The generated finish run from call k of its body on: the calls made, and
\* how it ended.  A failing required call ends it.
RECURSIVE RunFinish(_, _, _)
RunFinish(written, body, k) ==
    IF k > Len(body) THEN [calls |-> <<>>, res |-> Ok(<<>>)]
    ELSE LET outcome == IF body[k].call = "required"
                        THEN required(written, body[k].field) ELSE Ok(<<>>)
             rest == RunFinish(written, body, k + 1)
         IN  IF outcome.tag = "Panic" THEN [calls |-> <<body[k]>>, res |-> outcome]
             ELSE [calls |-> <<body[k]>> \o rest.calls, res |-> rest.res]

\* The adds of the generated create from field k on, in field order.
RECURSIVE RunAdds(_, _, _, _)
RunAdds(written, table_fields, args, k) ==
    IF k > Len(table_fields) THEN written
    ELSE RunAdds(RunAdd(written, BuilderFieldMethod(table_fields[k], k), args[k]),
                 table_fields, args, k + 1)

----------------------------------------------------------------------------
(* Tables whose bindings are run *)

\* A string field required or not, a float field defaulting to 2.0, a float
\* field without default.  The float 2.0 is written 2.
FieldKinds ==
    {[ty |-> "String", scalar |-> None, required |-> r] : r \in BOOLEAN}
    \cup {[ty |-> "Float64", scalar |-> d, required |-> FALSE] : d \in {None, Some(2)}}

\* What may be handed to the add method of a field: a string's offset, or a
\* float that is the default or is not.
ValuesOf(field) == IF field.ty = "String" THEN {16} ELSE {2, 3}

TableFieldLists == SeqsUpTo(FieldKinds, MaxFields)

----------------------------------------------------------------------------
(* The bindings state machine: a builder of the table is fed, finished, and
   the finished table is read back *)

CallOf(method) == [call |-> method.call, field |-> method.field]

InitBind ==
    /\ debug = FALSE
    /\ ptrs = {}
    /\ last = NoCall
    /\ IdleTable
    /\ elem = NoCall
    /\ emitted = <<>>
    /\ gstat = "idle"
    /\ IdleComp
    /\ fields \in TableFieldLists
    /\ slots = [i \in 1..Len(fields) |-> None]
    /\ bcalls = <<[call |-> "start_table", field |-> 0]>>
    /\ blast = [op |-> "new", field |-> 0, res |-> Ok(<<>>), finished |-> "no"]

Finished(res) == IF res.tag = "Panic" THEN "failed" ELSE "ok"

\* add_<field> on a field not added yet.
BuilderAdd ==
    /\ blast.finished = "no"
    /\ \E i \in 1..Len(fields) :
          /\ \A k \in 1..Len(bcalls) : bcalls[k].field # i
          /\ \E value \in ValuesOf(fields[i]) :
                LET method == BuilderFieldMethod(fields[i], i)
                IN  /\ slots' = RunAdd(slots, method, value)
                    /\ bcalls' = Append(bcalls, CallOf(method))
                    /\ blast' = [op |-> "add", field |-> i, res |-> Ok(<<>>),
                                 finished |-> "no"]
    /\ UNCHANGED <<debug, ptrVars, tableVars, genVars, compVars, fields>>

\* finish on the builder.
BuilderFinish ==
    /\ blast.finished = "no"
    /\ LET run == RunFinish(slots, FinishBody(fields), 1)
       IN  /\ bcalls' = bcalls \o run.calls
           /\ blast' = [op |-> "finish", field |-> 0, res |-> run.res,
                        finished |-> Finished(run.res)]
    /\ UNCHANGED <<debug, ptrVars, tableVars, genVars, compVars, fields, slots>>

\* create: a fresh builder, every add in field order, finish.
Create ==
    /\ blast.op = "new"
    /\ \E args \in [1..Len(fields) -> {2, 3, 16}] :
          /\ \A i \in 1..Len(fields) : args[i] \in ValuesOf(fields[i])
          /\ LET written == RunAdds(slots, fields, args, 1)
                 adds == [i \in 1..Len(fields) |->
                             CallOf(BuilderFieldMethod(fields[i], i))]
                 run == RunFinish(written, FinishBody(fields), 1)
             IN  /\ slots' = written
                 /\ bcalls' = bcalls \o adds \o run.calls
                 /\ blast' = [op |-> "create", field |-> 0, res |-> run.res,
                              finished |-> Finished(run.res)]
    /\ UNCHANGED <<debug, ptrVars, tableVars, genVars, compVars, fields>>

\* From<Table>: the bindings are laid over a table some other writer
\* encoded, which wrote every required field and any of the others.
FromTable ==
    /\ blast.op = "new"
    /\ \E written \in [1..Len(fields) -> {None} \cup {Some(v) : v \in {2, 3, 16}}] :
          /\ \A i \in 1..Len(fields) :
                /\ written[i] # None => written[i].val \in ValuesOf(fields[i])
                /\ fields[i].required => written[i] # None
          /\ slots' = written
    /\ blast' = [op |-> "from", field |-> 0, res |-> Ok(<<>>), finished |-> "read"]
    /\ UNCHANGED <<debug, ptrVars, tableVars, genVars, compVars, fields, bcalls>>

\* The accessor of a field on a finished or received table.
Accessor ==
    /\ blast.finished \in {"ok", "read"}
    /\ \E i \in 1..Len(fields) :
          blast' = [op |-> "accessor", field |-> i,
                    res |-> get_or(slots, i, FieldAccessor(fields[i], i).default),
                    finished |-> blast.finished]
    /\ UNCHANGED <<debug, ptrVars, tableVars, genVars, compVars, fields, slots, bcalls>>

NextBind == BuilderAdd \/ BuilderFinish \/ Create \/ FromTable \/ Accessor

SpecBind == InitBind /\ [][NextBind]_vars

----------------------------------------------------------------------------
(* Properties of the generated bindings *)

\* C12: the accessor of a scalar field with a schema default returns the
\* default when the field's slot is absent and the decoded value when it is
\* present; a float field defaulting to 2.0 that was never written reads as
\* 2.0, not as None.
C12_AccessorReturnsDefault ==
    (/\ blast.op = "accessor"
     /\ is_scalar(fields[blast.field].ty)
     /\ fields[blast.field].scalar # None) =>
        /\ blast.res.tag # "None"
        /\ blast.res.val = IF slots[blast.field] = None
                           THEN fields[blast.field].scalar.val
                           ELSE slots[blast.field].val

\* The calls of `required` made for field i.
RequiredCalls(i) ==
    {k \in 1..Len(bcalls) : bcalls[k].call = "required" /\ bcalls[k].field = i}

\* C13: a finish calls end_table once and before every `required`; it calls
\* `required` for no field that is not required and once for every required
\* field (up to the one that fails); it fails exactly when the slot of some
\* required field was never written.
C13_FinishChecksRequired ==
    blast.finished \in {"ok", "failed"} =>
        /\ \E e \in 1..Len(bcalls) :
              /\ bcalls[e].call = "end_table"
              /\ \A k \in 1..Len(bcalls) :
                    /\ bcalls[k].call = "end_table" => k = e
                    /\ bcalls[k].call = "required" => k > e
        /\ \A i \in 1..Len(fields) :
              /\ ~fields[i].required => RequiredCalls(i) = {}
              /\ fields[i].required => Cardinality(RequiredCalls(i)) <= 1
              /\ (fields[i].required /\ blast.finished = "ok")
                    => Cardinality(RequiredCalls(i)) = 1
        /\ blast.finished = "failed"
              <=> \E i \in 1..Len(fields) : fields[i].required /\ slots[i] = None

----------------------------------------------------------------------------
(* Properties of the compile entry points *)

\* The unsupported elements of the schema.
Offending ==
    {schema.elements[k] : k \in {i \in 1..Len(schema.elements) :
                                    schema.elements[i].kind \in UnsupportedKinds}}

\* C14: a run on a schema with an unsupported element returns an error that
\* names one of its unsupported elements, and writes nothing to the output.
C14_UnsupportedIsReturnedError ==
    \A r \in 1..Len(runs) :
        (schema.text = "ok" /\ Offending # {}) =>
            /\ runs[r].written = None
            /\ runs[r].res.tag = "Err"
            /\ runs[r].res.err.element \in Offending

\* The namespaces declared in the schema.
DeclaredNamespaces ==
    {schema.elements[k].ident : k \in {i \in 1..Len(schema.elements) :
                                          is_namespace(schema.elements[i])}}

\* C15: two runs of the same entry point on a schema with two or more
\* distinct namespaces write the same text, the groups in the same order.
C15_CompileDeterministic ==
    (/\ Len(runs) = 2
     /\ runs[1].entry = runs[2].entry
     /\ schema.text = "ok"
     /\ Cardinality(DeclaredNamespaces) >= 2) =>
        /\ runs[1].res = runs[2].res
        /\ runs[1].written = runs[2].written
        /\ [g \in 1..Len(runs[1].groups) |-> runs[1].groups[g].ns]
              = [g \in 1..Len(runs[2].groups) |-> runs[2].groups[g].ns]

\* The code a run generated, its groups in the order the run had them.
CodeOf(run) ==
    Schema_to_tokens(schema.includes, schema.elements,
                     [g \in 1..Len(run.groups) |-> run.groups[g].ns])

\* C16: a compile_fbs_generic run that got as far as generated code returns
\* an error whenever it was asked to format and formatting failed in any
\* way; asked for unformatted output, it never starts the formatter and
\* writes exactly the generated text.
C16_FormatterFailureIsError ==
    \A r \in 1..Len(runs) :
        (/\ runs[r].entry = "compile_fbs_generic"
         /\ schema.text = "ok"
         /\ CodeOf(runs[r]).tag = "Ok") =>
            /\ (~env.ugly /\ env.fmt # "ok") => runs[r].res.tag = "Err"
            /\ env.ugly =>
                  /\ ~runs[r].spawned
                  /\ runs[r].res = Ok(<<>>)
                  /\ runs[r].written = Some(Raw(CodeOf(runs[r]).val))

====
